---- MODULE Spec2Model ----
(***************************************************************************)
(* Model of two parts of the crate:                                        *)
(*   - src/src/action/switch.rs : the Switch<M> resource, its run          *)
(*     conditions and the edge observers with their Local<bool> latches;   *)
(*   - src/src/action.rs        : the to_tuple output-arity adapter.       *)
(* Five specifications share the variables:                                *)
(*   Spec      - any host calling on/off/set and the edge observers;       *)
(*   SpecRdv   - the rendezvous of the Switch doc example (workflows that  *)
(*               request work, a host system gated by switch_is_on);       *)
(*   SpecTuple - a host polling one to_tuple runner;                       *)
(*   SpecSlot  - a producer and a consumer of one TaskOutput;              *)
(*   SpecSeq   - a host polling the runner of sequence(A, B).              *)
(* CancellationToken, TaskOutput, TaskRunner (crate::runner) and the       *)
(* sequence, once and wait actions are not part of the two source files;   *)
(* they are modelled from the specification document.                      *)
(***************************************************************************)
EXTENDS Integers, Sequences, FiniteSets, TLC

\* ---------------------------------------------------------------- bounds
\* Independent observers of each kind (systems using the run condition).
NObs == 2
\* Effective transitions are counted up to this number (saturating).
MaxTrans == 2
\* Workflows requesting work through the same Switch<M>.
NWorkflows == 3
\* Polls of the inner runner made through to_tuple; polls of a sequence.
MaxPolls == 4
\* Values written to an output slot and not yet taken.
MaxUnread == 3
\* Distinct output values an inner action may produce.
NValues == 3

\* ---------------------------------------------------------------- Option<T>
None == <<>>
Some(x) == <<x>>
Unwrap(opt) == opt[1]

Min(a, b) == IF a < b THEN a ELSE b

VARIABLES
    switch,     \* Option<Res<Switch<M>>>: None, or Some([just_change, turned_on, checked])
    is_on,      \* Local<bool> of each switch_just_turned_on observer
    is_off,     \* Local<bool> of each switch_just_turned_off observer
    lastCall,   \* the last call made: [op, who, ret, n]; n is the call count modulo 2
    start,      \* history: Some(initial state) once the resource was created
    nTrans,     \* history: effective transitions since creation, saturating at MaxTrans
    seen,       \* history: what each observer's previous query found: "none", "on", "off"
    fresh,      \* history: an effective transition to the observer's state happened
                \* since the observer's last query
    asked,      \* history: the observer has queried since the last effective transition
    wf,         \* SpecRdv: each workflow's position: "request", "wait", "done"
    served,     \* SpecRdv history: the gated system ran since the workflow's request
    flags,      \* SpecTuple: the shared flags of the CancellationTokens
    runner,     \* SpecTuple: to_tuple's Runner [r, o, token]
    token,      \* SpecTuple: the runner's own (outer) CancellationToken
    output,     \* SpecTuple: the runner's own TaskOutput<(O, )>
    world,      \* SpecTuple: side effects the inner runner applied to the World
    host,       \* SpecTuple: "polling" until the runner returns true, then "stopped"
    lastPoll,   \* SpecTuple history: what the last poll did, and the behaviour the
                \* inner runner had ready for that tick
    writes,     \* SpecTuple history: number of writes to the runner's own output slot
    task_output, \* SpecSlot: a TaskOutput<T>
    unread,     \* SpecSlot history: the values replaced since the last take
    taken,      \* SpecSlot history: what the last take returned
    seq,        \* SpecSeq: the runner of sequence(A, B)
    seqToken,   \* SpecSeq: cancellation of the sequence's own token was requested
    seqOut,     \* SpecSeq: the sequence's own output slot
    effects,    \* SpecSeq: side effects applied to the World by A's and by B's runner
    seqHost,    \* SpecSeq: "polling" until the runner returns true, then "stopped"
    seqLast     \* SpecSeq history: the own token and the active stage at the last poll

obsVars == <<is_on, is_off, start, nTrans, seen, fresh, asked>>
rdvVars == <<wf, served>>
slotVars == <<task_output, unread, taken>>
seqVars == <<seq, seqToken, seqOut, effects, seqHost, seqLast>>
tupVars == <<flags, runner, token, output, world, host, lastPoll, writes>>
vars == <<switch, is_on, is_off, lastCall, start, nTrans, seen, fresh, asked,
          wf, served, flags, runner, token, output, world, host, lastPoll, writes,
          task_output, unread, taken, seq, seqToken, seqOut, effects, seqHost, seqLast>>

ObsIds == 1..NObs
Workflows == 1..NWorkflows
Observers == {"on", "off"} \X ObsIds

\* ---------------------------------------------------------------- Switch<M>
\* Switch::new (variant: a new switch does not count as just changed)
new_unchanged(turn_on) == [just_change |-> FALSE, turned_on |-> turn_on, checked |-> FALSE]
new(turn_on) == [just_change |-> TRUE, turned_on |-> turn_on, checked |-> FALSE]

\* Switch::is_on, Switch::is_off
is_on_(s) == s.turned_on
is_off_(s) == ~s.turned_on

\* Switch::on
on_toggle(s) == [s EXCEPT !.just_change = TRUE, !.turned_on = ~s.turned_on]
on(s) ==
    IF is_off_(s)
    THEN [s EXCEPT !.just_change = TRUE, !.turned_on = TRUE]
    ELSE s

\* Switch::off (variant: the test is inverted)
off_inverted(s) ==
    IF ~s.turned_on
    THEN [s EXCEPT !.just_change = TRUE, !.turned_on = FALSE]
    ELSE s
off(s) ==
    IF s.turned_on
    THEN [s EXCEPT !.just_change = TRUE, !.turned_on = FALSE]
    ELSE s

\* Switch::set (variant: the branches are swapped)
set_swapped(s, turn_on) == IF turn_on THEN off(s) ELSE on(s)
set(s, turn_on) == IF turn_on THEN on(s) ELSE off(s)

\* Default for Switch<M>
default == new(FALSE)

\* ---------------------------------------------------------------- run conditions
\* switch.is_some_and(|s| p(s)) is written sw # None /\ p(Unwrap(sw)).
switch_is_on_exists(sw) == sw # None
switch_is_on(sw) == (sw # None /\ is_on_(Unwrap(sw)))
switch_is_off_or_absent(sw) == (sw = None \/ is_off_(Unwrap(sw)))
switch_is_off(sw) == (sw # None /\ is_off_(Unwrap(sw)))

\* Both edge conditions return the pair (returned bool, new value of the Local).
\* Variants: the Local is not reset while the switch is not on; the shared
\* just_change flag is read instead of the Local.
switch_just_turned_on_noreset(sw, local) ==
    IF (sw # None /\ is_on_(Unwrap(sw)))
    THEN IF local
         THEN [ret |-> FALSE, local |-> local]
         ELSE [ret |-> TRUE, local |-> TRUE]
    ELSE [ret |-> FALSE, local |-> local]
switch_just_turned_on_shared(sw, local) ==
    IF (sw # None /\ is_on_(Unwrap(sw)))
    THEN [ret |-> Unwrap(sw).just_change, local |-> TRUE]
    ELSE [ret |-> FALSE, local |-> FALSE]
switch_just_turned_on(sw, local) ==
    IF (sw # None /\ is_on_(Unwrap(sw)))
    THEN IF local
         THEN [ret |-> FALSE, local |-> local]
         ELSE [ret |-> TRUE, local |-> TRUE]
    ELSE [ret |-> FALSE, local |-> FALSE]

\* Variant: the Local is never set.
switch_just_turned_off_unlatched(sw, local) ==
    IF (sw # None /\ is_off_(Unwrap(sw)))
    THEN IF local
         THEN [ret |-> FALSE, local |-> local]
         ELSE [ret |-> TRUE, local |-> local]
    ELSE [ret |-> FALSE, local |-> FALSE]
switch_just_turned_off(sw, local) ==
    IF (sw # None /\ is_off_(Unwrap(sw)))
    THEN IF local
         THEN [ret |-> FALSE, local |-> local]
         ELSE [ret |-> TRUE, local |-> TRUE]
    ELSE [ret |-> FALSE, local |-> FALSE]

\* ---------------------------------------------------------------- crate::runner
\* CancellationToken: a handle to a shared flag. The flags live in a store fl
\* (a sequence of booleans); a token is an index into it.
\* CancellationToken::default allocates a new flag, not cancelled.
CancellationToken_default(fl) == [flags |-> Append(fl, FALSE), token |-> Len(fl) + 1]
\* Clone: another handle to the same flag.
clone(tk) == tk
cancel(fl, tk) == [fl EXCEPT ![tk] = TRUE]
requested_cancel(fl, tk) == fl[tk]

\* TaskOutput<T>: an Option<T> cell shared by its clones.
TaskOutput_default == None
\* Variant: a value already in the slot is kept.
replace_keep_first(slot, v) == IF slot = None THEN Some(v) ELSE slot
replace(slot, v) == Some(v)
take(slot) == [val |-> slot, slot |-> None]

Values == 1..NValues
\* What one run of an inner runner may do: write its output or not, return true or false.
Behaviours == [put : {None} \cup {Some(v) : v \in Values}, ret : BOOLEAN]

\* self.r.run(world) of an arbitrary inner TaskRunner holding a clone of the slot o.
run(r, o, w, beh) ==
    [r |-> [r EXCEPT !.steps = r.steps + 1, !.done = r.done \/ beh.ret],
     o |-> IF beh.put = None THEN o ELSE replace(o, Unwrap(beh.put)),
     world |-> w + 1]

\* ---------------------------------------------------------------- to_tuple
\* Runner::run_with_task_output; the result carries the new runner, the flag
\* store, the new own output slot and world, the returned bool and what the
\* poll did.
\* Variants: the inner token is not cancelled; the inner runner is stepped
\* before the cancellation check; the value is written without taking it;
\* cancellation is looked at only after the step and the write.
run_with_task_output_nocancel(self, fl, tk, out, w, beh) ==
    IF requested_cancel(fl, tk)
    THEN [self |-> self, flags |-> fl,
          output |-> out, world |-> w, ret |-> TRUE,
          stepped |-> FALSE, took |-> FALSE, wrote |-> FALSE]
    ELSE LET a == run(self.r, self.o, w, beh)
             t == take(a.o)
         IN  IF t.val # None
             THEN [self |-> [r |-> a.r, o |-> t.slot, token |-> self.token], flags |-> fl,
                   output |-> replace(out, <<Unwrap(t.val)>>), world |-> a.world,
                   ret |-> TRUE, stepped |-> TRUE, took |-> TRUE, wrote |-> TRUE]
             ELSE [self |-> [r |-> a.r, o |-> t.slot, token |-> self.token], flags |-> fl,
                   output |-> out, world |-> a.world,
                   ret |-> FALSE, stepped |-> TRUE, took |-> TRUE, wrote |-> FALSE]
run_with_task_output_steps_first(self, fl, tk, out, w, beh) ==
    LET a == run(self.r, self.o, w, beh)
        t == take(a.o)
    IN  IF requested_cancel(fl, tk)
        THEN [self |-> [r |-> a.r, o |-> a.o, token |-> self.token],
              flags |-> cancel(fl, self.token),
              output |-> out, world |-> a.world, ret |-> TRUE,
              stepped |-> TRUE, took |-> FALSE, wrote |-> FALSE]
        ELSE IF t.val # None
             THEN [self |-> [r |-> a.r, o |-> t.slot, token |-> self.token], flags |-> fl,
                   output |-> replace(out, <<Unwrap(t.val)>>), world |-> a.world,
                   ret |-> TRUE, stepped |-> TRUE, took |-> TRUE, wrote |-> TRUE]
             ELSE [self |-> [r |-> a.r, o |-> t.slot, token |-> self.token], flags |-> fl,
                   output |-> out, world |-> a.world,
                   ret |-> FALSE, stepped |-> TRUE, took |-> TRUE, wrote |-> FALSE]
run_with_task_output_peek(self, fl, tk, out, w, beh) ==
    IF requested_cancel(fl, tk)
    THEN [self |-> self, flags |-> cancel(fl, self.token),
          output |-> out, world |-> w, ret |-> TRUE,
          stepped |-> FALSE, took |-> FALSE, wrote |-> FALSE]
    ELSE LET a == run(self.r, self.o, w, beh)
         IN  IF a.o # None
             THEN [self |-> [r |-> a.r, o |-> a.o, token |-> self.token], flags |-> fl,
                   output |-> replace(out, <<Unwrap(a.o)>>), world |-> a.world,
                   ret |-> TRUE, stepped |-> TRUE, took |-> FALSE, wrote |-> TRUE]
             ELSE [self |-> [r |-> a.r, o |-> a.o, token |-> self.token], flags |-> fl,
                   output |-> out, world |-> a.world,
                   ret |-> FALSE, stepped |-> TRUE, took |-> FALSE, wrote |-> FALSE]
run_with_task_output_late_cancel(self, fl, tk, out, w, beh) ==
    LET a == run(self.r, self.o, w, beh)
        t == take(a.o)
        fl2 == IF requested_cancel(fl, tk) THEN cancel(fl, self.token) ELSE fl
    IN  IF t.val # None
        THEN [self |-> [r |-> a.r, o |-> t.slot, token |-> self.token], flags |-> fl2,
              output |-> replace(out, <<Unwrap(t.val)>>), world |-> a.world,
              ret |-> TRUE, stepped |-> TRUE, took |-> TRUE, wrote |-> TRUE]
        ELSE [self |-> [r |-> a.r, o |-> t.slot, token |-> self.token], flags |-> fl2,
              output |-> out, world |-> a.world,
              ret |-> requested_cancel(fl, tk), stepped |-> TRUE, took |-> TRUE,
              wrote |-> FALSE]
run_with_task_output(self, fl, tk, out, w, beh) ==
    IF requested_cancel(fl, tk)
    THEN [self |-> self, flags |-> cancel(fl, self.token),
          output |-> out, world |-> w, ret |-> TRUE,
          stepped |-> FALSE, took |-> FALSE, wrote |-> FALSE]
    ELSE LET a == run(self.r, self.o, w, beh)
             t == take(a.o)
         IN  IF t.val # None
             THEN [self |-> [r |-> a.r, o |-> t.slot, token |-> self.token], flags |-> fl,
                   output |-> replace(out, <<Unwrap(t.val)>>), world |-> a.world,
                   ret |-> TRUE, stepped |-> TRUE, took |-> TRUE, wrote |-> TRUE]
             ELSE [self |-> [r |-> a.r, o |-> t.slot, token |-> self.token], flags |-> fl,
                   output |-> out, world |-> a.world,
                   ret |-> FALSE, stepped |-> TRUE, took |-> TRUE, wrote |-> FALSE]

\* ---------------------------------------------------------------- bookkeeping
Called(op, who, ret) ==
    lastCall' = [op |-> op, who |-> who, ret |-> ret, n |-> 1 - lastCall.n]

\* What a query finds: "none" without a resource, else "on" or "off".
Look(sw) == IF sw = None THEN "none" ELSE IF Unwrap(sw).turned_on THEN "on" ELSE "off"

\* History after a call that took the resource from s to t.
Mutated(s, t) ==
    IF t.turned_on # s.turned_on
    THEN /\ nTrans' = Min(nTrans + 1, MaxTrans)
         /\ fresh' = [o \in Observers |->
                        IF o[1] = (IF t.turned_on THEN "on" ELSE "off")
                        THEN TRUE ELSE fresh[o]]
         /\ asked' = [o \in Observers |-> FALSE]
    ELSE UNCHANGED <<nTrans, fresh, asked>>

Queried(o) ==
    /\ seen' = [seen EXCEPT ![o] = Look(switch)]
    /\ fresh' = [fresh EXCEPT ![o] = FALSE]
    /\ asked' = [asked EXCEPT ![o] = TRUE]

\* ---------------------------------------------------------------- actions of Spec
InitObservers ==
    /\ is_on = [i \in ObsIds |-> FALSE]
    /\ is_off = [i \in ObsIds |-> FALSE]
    /\ lastCall = [op |-> "init", who |-> 0, ret |-> FALSE, n |-> 0]
    /\ start = None
    /\ nTrans = 0
    /\ seen = [o \in Observers |-> "none"]
    /\ fresh = [o \in Observers |-> FALSE]
    /\ asked = [o \in Observers |-> FALSE]

InitWorkflows ==
    /\ wf = [w \in Workflows |-> "request"]
    /\ served = [w \in Workflows |-> FALSE]

\* to_tuple: a fresh inner token and output slot; the inner runner is built
\* from clones of both. Variant: the inner runner is given a token of its own.
to_tuple_fresh_token(fl) ==
    LET t == CancellationToken_default(fl)
        u == CancellationToken_default(t.flags)
    IN  [flags |-> u.flags,
         runner |-> [r |-> [steps |-> 0, done |-> FALSE, token |-> u.token],
                     o |-> TaskOutput_default,
                     token |-> t.token]]
to_tuple(fl) ==
    LET t == CancellationToken_default(fl)
    IN  [flags |-> t.flags,
         runner |-> [r |-> [steps |-> 0, done |-> FALSE, token |-> clone(t.token)],
                     o |-> TaskOutput_default,
                     token |-> t.token]]

\* The host creates the runner's own token and output slot, then calls to_runner.
InitTuple ==
    LET own == CancellationToken_default(<<>>)
        made == to_tuple(own.flags)
    IN  /\ token = own.token
        /\ flags = made.flags
        /\ runner = made.runner
        /\ output = TaskOutput_default
        /\ world = 0
        /\ host = "polling"
        /\ lastPoll = [cancelled |-> FALSE, stepped |-> FALSE, took |-> FALSE,
                       wrote |-> FALSE, beh |-> [put |-> None, ret |-> FALSE]]
        /\ writes = 0

InitSlot ==
    /\ task_output = TaskOutput_default
    /\ unread = <<>>
    /\ taken = None

\* sequence(A, B): A's runner is made with the sequence; B's runner is not.
sequence ==
    [stage |-> "A", a_done |-> FALSE, b_made |-> FALSE, input |-> None,
     cancelled_child |-> "none"]

InitSeq ==
    /\ seq = sequence
    /\ seqToken = FALSE
    /\ seqOut = TaskOutput_default
    /\ effects = [A |-> 0, B |-> 0]
    /\ seqHost = "polling"
    /\ seqLast = [cancelled |-> FALSE, stage |-> "A"]

Init ==
    /\ switch = None
    /\ InitObservers
    /\ InitWorkflows
    /\ InitTuple
    /\ InitSlot
    /\ InitSeq

\* Switch::setup: the resource is created on first access (spec section 3).
Setup(turn_on) ==
    /\ switch = None
    /\ switch' = Some(new(turn_on))
    /\ start' = Some(turn_on)
    /\ Called("setup", 0, turn_on)
    /\ UNCHANGED <<is_on, is_off, nTrans, seen, fresh, asked>>
    /\ UNCHANGED <<rdvVars, tupVars, slotVars, seqVars>>

On ==
    /\ switch # None
    /\ switch' = Some(on(Unwrap(switch)))
    /\ Mutated(Unwrap(switch), Unwrap(switch'))
    /\ Called("on", 0, FALSE)
    /\ UNCHANGED <<is_on, is_off, start, seen>>
    /\ UNCHANGED <<rdvVars, tupVars, slotVars, seqVars>>

Off ==
    /\ switch # None
    /\ switch' = Some(off(Unwrap(switch)))
    /\ Mutated(Unwrap(switch), Unwrap(switch'))
    /\ Called("off", 0, FALSE)
    /\ UNCHANGED <<is_on, is_off, start, seen>>
    /\ UNCHANGED <<rdvVars, tupVars, slotVars, seqVars>>

Set(turn_on) ==
    /\ switch # None
    /\ switch' = Some(set(Unwrap(switch), turn_on))
    /\ Mutated(Unwrap(switch), Unwrap(switch'))
    /\ Called("set", 0, turn_on)
    /\ UNCHANGED <<is_on, is_off, start, seen>>
    /\ UNCHANGED <<rdvVars, tupVars, slotVars, seqVars>>

JustTurnedOn(i) ==
    LET r == switch_just_turned_on(switch, is_on[i]) IN
    /\ is_on' = [is_on EXCEPT ![i] = r.local]
    /\ Called("switch_just_turned_on", i, r.ret)
    /\ Queried(<<"on", i>>)
    /\ UNCHANGED <<switch, is_off, start, nTrans>>
    /\ UNCHANGED <<rdvVars, tupVars, slotVars, seqVars>>

JustTurnedOff(i) ==
    LET r == switch_just_turned_off(switch, is_off[i]) IN
    /\ is_off' = [is_off EXCEPT ![i] = r.local]
    /\ Called("switch_just_turned_off", i, r.ret)
    /\ Queried(<<"off", i>>)
    /\ UNCHANGED <<switch, is_on, start, nTrans>>
    /\ UNCHANGED <<rdvVars, tupVars, slotVars, seqVars>>

Next ==
    \/ \E b \in BOOLEAN : Setup(b)
    \/ On
    \/ Off
    \/ \E b \in BOOLEAN : Set(b)
    \/ \E i \in ObsIds : JustTurnedOn(i)
    \/ \E i \in ObsIds : JustTurnedOff(i)

Spec == Init /\ [][Next]_vars

\* ---------------------------------------------------------------- actions of SpecRdv
\* The Switch doc example: workflows run once::switch::on then wait::switch::off;
\* a host system does the work and calls off(), gated by run_if(switch_is_on).

\* once::switch::on: turn the switch on, creating the resource on first access.
Request(w) ==
    /\ wf[w] = "request"
    /\ switch' = IF switch = None THEN Some(new(TRUE)) ELSE Some(on(Unwrap(switch)))
    /\ wf' = [wf EXCEPT ![w] = "wait"]
    /\ served' = [served EXCEPT ![w] = FALSE]
    /\ Called("request", w, FALSE)
    /\ UNCHANGED <<obsVars, tupVars, slotVars, seqVars>>

\* wait::switch::off: polled each tick, completes once the switch is off.
WaitOff(w) ==
    /\ wf[w] = "wait"
    /\ wf' = [wf EXCEPT ![w] = IF switch_is_off(switch) THEN "done" ELSE "wait"]
    /\ Called("wait", w, switch_is_off(switch))
    /\ UNCHANGED <<switch, served, obsVars, tupVars, slotVars, seqVars>>

\* The gated system: runs only on ticks where its run condition holds.
HostSystem ==
    /\ switch_is_on(switch)
    /\ switch' = Some(off(Unwrap(switch)))
    /\ served' = [w \in Workflows |-> served[w] \/ wf[w] = "wait"]
    /\ Called("host", 0, FALSE)
    /\ UNCHANGED <<wf, obsVars, tupVars, slotVars, seqVars>>

\* The host may have inserted the default switch before any workflow runs.
InitRdv ==
    /\ switch \in {None, Some(default)}
    /\ InitObservers
    /\ InitWorkflows
    /\ InitTuple
    /\ InitSlot
    /\ InitSeq

NextRdv ==
    \/ \E w \in Workflows : Request(w)
    \/ \E w \in Workflows : WaitOff(w)
    \/ HostSystem

\* Every system and every workflow is run on every tick of the schedule.
SpecRdv ==
    /\ InitRdv
    /\ [][NextRdv]_vars
    /\ WF_vars(HostSystem)
    /\ \A w \in Workflows : WF_vars(Request(w)) /\ WF_vars(WaitOff(w))

\* ---------------------------------------------------------------- actions of SpecTuple
\* The host polls the runner until it returns true.
Poll(beh) ==
    /\ host = "polling"
    /\ runner.r.steps < MaxPolls
    /\ LET res == run_with_task_output(runner, flags, token, output, world, beh) IN
        /\ runner' = res.self
        /\ flags' = res.flags
        /\ output' = res.output
        /\ world' = res.world
        /\ host' = IF res.ret THEN "stopped" ELSE "polling"
        /\ lastPoll' = [cancelled |-> requested_cancel(flags, token), stepped |-> res.stepped,
                        took |-> res.took, wrote |-> res.wrote,
                        beh |-> beh]
        /\ writes' = IF res.wrote THEN writes + 1 ELSE writes
        /\ Called("poll", 0, res.ret)
    /\ UNCHANGED <<switch, token, obsVars, rdvVars, slotVars, seqVars>>

\* The enclosing workflow requests cancellation of the runner's own token.
Cancel ==
    /\ flags' = cancel(flags, token)
    /\ Called("cancel", 0, FALSE)
    /\ UNCHANGED <<switch, runner, token, output, world, host, lastPoll, writes, obsVars, rdvVars, slotVars, seqVars>>

NextTuple ==
    \/ \E beh \in Behaviours : Poll(beh)
    \/ Cancel

SpecTuple == Init /\ [][NextTuple]_vars

\* ---------------------------------------------------------------- actions of SpecSlot
\* A producer and a consumer of one TaskOutput<T>.
Replace(v) ==
    /\ Len(unread) < MaxUnread
    /\ task_output' = replace(task_output, v)
    /\ unread' = Append(unread, v)
    /\ Called("replace", 0, FALSE)
    /\ UNCHANGED <<switch, taken, obsVars, rdvVars, tupVars, seqVars>>

Take ==
    LET t == take(task_output) IN
    /\ task_output' = t.slot
    /\ taken' = t.val
    /\ unread' = <<>>
    /\ Called("take", 0, t.val # None)
    /\ UNCHANGED <<switch, obsVars, rdvVars, tupVars, seqVars>>

NextSlot ==
    \/ \E v \in Values : Replace(v)
    \/ Take

SpecSlot == Init /\ [][NextSlot]_vars

\* ---------------------------------------------------------------- actions of SpecSeq
\* A runner that returns true exactly on the run that writes its output.
WellBehaved == {b \in Behaviours : b.ret = (b.put # None)}

\* One poll of the runner of sequence(A, B). behA and behB are what A's and B's
\* runner do if stepped on this tick; same says whether B's runner, once made,
\* is stepped on the tick on which A completed.
\* Variant: the active stage is stepped before the own token is looked at.
sequence_run_steps_first(self, cancelled, out, eff, behA, behB, same) ==
    LET stepA == self.stage = "A"
        toB == stepA /\ behA.put # None
        stepB == self.stage = "B" \/ (toB /\ same)
        s2 == IF toB
              THEN [self EXCEPT !.stage = "B", !.a_done = TRUE, !.b_made = TRUE,
                                !.input = behA.put]
              ELSE self
        e2 == [A |-> IF stepA THEN eff.A + 1 ELSE eff.A,
               B |-> IF stepB THEN eff.B + 1 ELSE eff.B]
    IN  IF cancelled
        THEN [self |-> [s2 EXCEPT !.cancelled_child = s2.stage], out |-> out,
              eff |-> e2, ret |-> TRUE]
        ELSE IF stepB /\ behB.put # None
             THEN [self |-> s2, out |-> replace(out, Unwrap(behB.put)), eff |-> e2,
                   ret |-> TRUE]
             ELSE [self |-> s2, out |-> out, eff |-> e2, ret |-> FALSE]
sequence_run(self, cancelled, out, eff, behA, behB, same) ==
    IF cancelled
    THEN [self |-> [self EXCEPT !.cancelled_child = self.stage], out |-> out,
          eff |-> eff, ret |-> TRUE]
    ELSE LET stepA == self.stage = "A"
             toB == stepA /\ behA.put # None
             stepB == self.stage = "B" \/ (toB /\ same)
             s2 == IF toB
                   THEN [self EXCEPT !.stage = "B", !.a_done = TRUE, !.b_made = TRUE,
                                     !.input = behA.put]
                   ELSE self
             e2 == [A |-> IF stepA THEN eff.A + 1 ELSE eff.A,
                    B |-> IF stepB THEN eff.B + 1 ELSE eff.B]
         IN  IF stepB /\ behB.put # None
             THEN [self |-> s2, out |-> replace(out, Unwrap(behB.put)), eff |-> e2,
                   ret |-> TRUE]
             ELSE [self |-> s2, out |-> out, eff |-> e2, ret |-> FALSE]

SeqPoll(behA, behB, same) ==
    /\ seqHost = "polling"
    /\ effects.A + effects.B < MaxPolls
    /\ LET res == sequence_run(seq, seqToken, seqOut, effects, behA, behB, same) IN
        /\ seq' = res.self
        /\ seqOut' = res.out
        /\ effects' = res.eff
        /\ seqHost' = IF res.ret THEN "stopped" ELSE "polling"
        /\ seqLast' = [cancelled |-> seqToken, stage |-> seq.stage]
        /\ Called("seq_poll", 0, res.ret)
    /\ UNCHANGED <<switch, seqToken, obsVars, rdvVars, tupVars, slotVars>>

SeqCancel ==
    /\ seqToken' = TRUE
    /\ Called("seq_cancel", 0, FALSE)
    /\ UNCHANGED <<switch, seq, seqOut, effects, seqHost, seqLast,
                   obsVars, rdvVars, tupVars, slotVars>>

NextSeq ==
    \/ \E behA \in WellBehaved, behB \in WellBehaved, same \in BOOLEAN :
          SeqPoll(behA, behB, same)
    \/ SeqCancel

SpecSeq == Init /\ [][NextSeq]_vars

\* ---------------------------------------------------------------- claims on Spec
\* The step is a call of op by who (every call changes lastCall.n).
IsCall(op, who) == lastCall' # lastCall /\ lastCall'.op = op /\ lastCall'.who = who
IsOn(sw) == sw # None /\ Unwrap(sw).turned_on
IsOff(sw) == sw # None /\ ~Unwrap(sw).turned_on

\* C1 as stated: every effective transition is reported by each observer of
\* its kind on that observer's first query after it, however many transitions
\* happened since the observer's previous query, and an observer returns true
\* on no other query (a first query of a switch created in the observer's
\* state is let through as a report of the creation).
C1_EveryTransitionReported ==
    [][\A i \in ObsIds :
        /\ IsCall("switch_just_turned_on", i) =>
              /\ fresh[<<"on", i>>] => lastCall'.ret
              /\ lastCall'.ret =>
                    \/ fresh[<<"on", i>>]
                    \/ seen[<<"on", i>>] = "none" /\ start = Some(TRUE)
        /\ IsCall("switch_just_turned_off", i) =>
              /\ fresh[<<"off", i>>] => lastCall'.ret
              /\ lastCall'.ret =>
                    \/ fresh[<<"off", i>>]
                    \/ seen[<<"off", i>>] = "none" /\ start = Some(FALSE)]_vars

\* C1 amended: an edge query returns true exactly when it finds the switch in
\* its state (on, resp. off) and the same observer's previous query, if any,
\* did not; so a transition is reported once, on the observer's first query
\* after it, when the observer queried since the preceding transition and the
\* switch was not switched back before the query.
C1_ReportsObservedChange ==
    [][\A i \in ObsIds :
        /\ IsCall("switch_just_turned_on", i) =>
              lastCall'.ret = (IsOn(switch) /\ seen[<<"on", i>>] # "on")
        /\ IsCall("switch_just_turned_off", i) =>
              lastCall'.ret = (IsOff(switch) /\ seen[<<"off", i>>] # "off")]_vars

\* An observer reports the first off->on transition of a switch created off.
C1_Witness ==
    /\ lastCall.op = "switch_just_turned_on"
    /\ lastCall.ret
    /\ nTrans = 1
    /\ start = Some(FALSE)

\* C2: the switch starts on and is turned off once; each switch_just_turned_off
\* observer returns true on its first query after the transition and false on
\* every later one, in every interleaving of the observers.
C2_OffSeenOnceByEach ==
    [][\A i \in ObsIds :
        (start = Some(TRUE) /\ nTrans = 1 /\ IsCall("switch_just_turned_off", i))
            => lastCall'.ret = ~asked[<<"off", i>>]]_vars

\* Every off observer has queried, and the last of them to make its first query got true.
C2_Witness ==
    /\ start = Some(TRUE)
    /\ nTrans = 1
    /\ \A i \in ObsIds : asked[<<"off", i>>]
    /\ lastCall.op = "switch_just_turned_off"
    /\ lastCall.ret

\* C3: the switch starts off; after on() (once or repeatedly) an observer's
\* first switch_just_turned_on query returns true and its further queries
\* return false while the switch is not turned off and on again.
C3_OnReportedOnce ==
    [][\A i \in ObsIds :
        (start = Some(FALSE) /\ nTrans = 1 /\ IsCall("switch_just_turned_on", i))
            => lastCall'.ret = ~asked[<<"on", i>>]]_vars

\* An on() that changed nothing was made after the report, then a query returned false.
C3_Witness ==
    /\ start = Some(FALSE)
    /\ nTrans = 1
    /\ lastCall.op = "switch_just_turned_on"
    /\ ~lastCall.ret
    /\ IsOn(switch)

\* C4: on() of a switch that is on, and off() of a switch that is off, change
\* no field of the switch.
C4_RepeatedCallIsNoOp ==
    [][/\ (IsCall("on", 0) /\ IsOn(switch)) => switch' = switch
       /\ (IsCall("off", 0) /\ IsOff(switch)) => switch' = switch]_vars

\* on() was called on a switch that was on: an observer's query since the last
\* transition is still recorded.
C4_Witness ==
    /\ lastCall.op = "on"
    /\ IsOn(switch)
    /\ \E i \in ObsIds : asked[<<"on", i>>]

C17_SetIsOnOrOff ==
    [][IsCall("set", 0) =>
          LET b == lastCall'.ret
              s == Unwrap(switch)
              u == Unwrap(switch')
          IN  /\ u = IF b THEN on(s) ELSE off(s)
              /\ is_on_(u) = b
              /\ is_off_(u) = ~b
              /\ u.turned_on = b
              /\ s.turned_on = b => u = s]_vars

\* set(true) was called on a switch created off, which is now on.
C17_Witness ==
    /\ lastCall.op = "set"
    /\ lastCall.ret
    /\ start = Some(FALSE)
    /\ nTrans = 1
    /\ IsOn(switch)

\* C18: without a Switch<M> resource the four run conditions return false and
\* the edge observers leave their Local false, whatever it was; with the
\* resource, exactly one of switch_is_on and switch_is_off holds.
C18_AbsentAllFalse ==
    /\ switch = None =>
          /\ ~switch_is_on(switch)
          /\ ~switch_is_off(switch)
          /\ \A l \in BOOLEAN :
                /\ switch_just_turned_on(switch, l) = [ret |-> FALSE, local |-> FALSE]
                /\ switch_just_turned_off(switch, l) = [ret |-> FALSE, local |-> FALSE]
          /\ lastCall.op \in {"switch_just_turned_on", "switch_just_turned_off"} =>
                ~lastCall.ret
          /\ \A i \in ObsIds : ~is_on[i] /\ ~is_off[i]
    /\ switch # None => (switch_is_on(switch) # switch_is_off(switch))

\* An edge observer was queried while there is no resource.
C18_Witness ==
    /\ switch = None
    /\ lastCall.op = "switch_just_turned_off"
    /\ ~lastCall.ret

\* C19: after a switch_just_turned_on query the observer's Local equals
\* (resource present and on), after a switch_just_turned_off query it equals
\* (resource present and off); the query returns true exactly when that
\* condition holds and the Local was false before. So a true report is never
\* followed by another on the same observer's next query: the query before a
\* true report did not find the condition.
C19_LatchFollowsLevel ==
    [][\A i \in ObsIds :
        /\ IsCall("switch_just_turned_on", i) =>
              /\ is_on'[i] = IsOn(switch)
              /\ lastCall'.ret = (IsOn(switch) /\ ~is_on[i])
              /\ lastCall'.ret => seen[<<"on", i>>] # "on"
        /\ IsCall("switch_just_turned_off", i) =>
              /\ is_off'[i] = IsOff(switch)
              /\ lastCall'.ret = (IsOff(switch) /\ ~is_off[i])
              /\ lastCall'.ret => seen[<<"off", i>>] # "off"]_vars

\* An off observer reports after at least two transitions and holds its Local.
C19_Witness ==
    /\ lastCall.op = "switch_just_turned_off"
    /\ lastCall.ret
    /\ is_off[lastCall.who]
    /\ nTrans = MaxTrans

\* C20: in every reachable state of the switch just_change is true and
\* checked is false.
C20_JustChangeAlwaysTrue ==
    switch # None => (Unwrap(switch).just_change /\ ~Unwrap(switch).checked)

\* The switch after transitions and a reporting edge query.
C20_Witness ==
    /\ lastCall.op = "switch_just_turned_on"
    /\ lastCall.ret
    /\ nTrans = MaxTrans
    /\ Unwrap(switch).just_change
    /\ ~Unwrap(switch).checked

\* ---------------------------------------------------------------- claims on SpecRdv
\* C6: under fair ticking every waiting workflow eventually completes, and no
\* workflow completes before the gated system has run after its request.
C6_Rendezvous ==
    /\ \A w \in Workflows : (wf[w] = "wait") ~> (wf[w] = "done")
    /\ [](\A w \in Workflows : wf[w] = "done" => served[w])

\* Every workflow has completed its wait.
C6_Witness == \A w \in Workflows : wf[w] = "done" /\ served[w]

\* C7: the gated system runs only while the resource exists and is on, so not
\* before the first request and not again after its off() until a later on().
C7_GatedOnlyWhileOn ==
    [][IsCall("host", 0) =>
          /\ IsOn(switch)
          /\ IsOff(switch')
          /\ \E w \in Workflows : wf[w] # "request"]_vars

\* The gated system has run for two workflows that requested the same switch.
C7_Witness ==
    /\ lastCall.op = "host"
    /\ IsOff(switch)
    /\ Cardinality({w \in Workflows : wf[w] = "wait" /\ served[w]}) >= 2

\* ---------------------------------------------------------------- claims on SpecTuple
\* C8: a poll made while the runner's own token is cancelled cancels the inner
\* token and returns true.
C8_CancelPropagates ==
    [][(IsCall("poll", 0) /\ flags[token]) =>
          /\ flags'[runner'.token]
          /\ lastCall'.ret
          /\ host' = "stopped"]_vars

\* The runner was cancelled after the inner runner had made progress.
C8_Witness ==
    /\ lastPoll.cancelled
    /\ flags[runner.token]
    /\ host = "stopped"
    /\ runner.r.steps >= 2

\* C9: a poll made while the own token is cancelled does not step the inner
\* runner, does not read the inner slot and leaves the own slot empty.
C9_CancelledPollFrame ==
    [][(IsCall("poll", 0) /\ flags[token]) =>
          /\ runner'.r = runner.r
          /\ runner'.o = runner.o
          /\ world' = world
          /\ output' = output
          /\ output' = None
          /\ ~lastPoll'.stepped
          /\ ~lastPoll'.took
          /\ ~lastPoll'.wrote]_vars

\* The cancelled poll came on a tick on which the inner runner would have completed.
C9_Witness ==
    /\ lastPoll.cancelled
    /\ lastPoll.beh.put # None
    /\ lastPoll.beh.ret
    /\ output = None
    /\ world = 0

\* C10: a poll made while the own token is not cancelled steps the inner runner
\* once; it returns true exactly when the inner slot then holds a value o, which
\* it takes and writes as (o, ) to the own slot; otherwise the own slot is not
\* written.
C10_UncancelledPoll ==
    [][(IsCall("poll", 0) /\ ~flags[token]) =>
          /\ runner'.r.steps = runner.r.steps + 1
          /\ world' = world + 1
          /\ lastCall'.ret = (lastPoll'.beh.put # None)
          /\ lastPoll'.beh.put # None =>
                /\ output' = Some(<<Unwrap(lastPoll'.beh.put)>>)
                /\ runner'.o = None
          /\ lastPoll'.beh.put = None =>
                /\ output' = output
                /\ ~lastPoll'.wrote]_vars

\* The runner completed with (o, ) on the tick of the inner output, after ticks without one.
C10_Witness ==
    /\ ~lastPoll.cancelled
    /\ host = "stopped"
    /\ runner.r.steps >= 2
    /\ output = Some(<<Unwrap(lastPoll.beh.put)>>)
    /\ runner.o = None

\* C11 as stated: once the inner runner has returned true, to_tuple never
\* steps it again, whatever the inner runner does (also when it returns true
\* on a run that leaves its output slot empty).
C11_InnerNotSteppedAfterDone ==
    [][(IsCall("poll", 0) /\ runner.r.done) => runner'.r.steps = runner.r.steps]_vars

\* C12: up to its first true return the runner writes its own output slot
\* never on a poll that returns false, exactly once (on the final poll) when
\* it completes, and not at all when it is cancelled.
C12_OneWriteOrNone ==
    /\ host = "polling" => writes = 0 /\ output = None
    /\ host = "stopped" =>
          \/ lastPoll.cancelled /\ writes = 0 /\ output = None /\ ~lastPoll.wrote
          \/ ~lastPoll.cancelled /\ writes = 1 /\ output # None /\ lastPoll.wrote

\* The runner was cancelled after polls that returned false.
C12_Witness ==
    /\ host = "stopped"
    /\ lastPoll.cancelled
    /\ writes = 0
    /\ runner.r.steps >= 1

\* C13: a cancellation flag never goes back to false and a further cancel()
\* changes nothing; the inner runner's token is a clone of the runner's inner
\* token, so it reads the cancel() made by the cancelled poll, and the inner
\* token is cancelled only once a poll has seen the own token cancelled.
C13_TokenMonotoneShared ==
    /\ [][\A c \in DOMAIN flags : flags[c] => flags'[c]]_vars
    /\ [][(IsCall("cancel", 0) /\ flags[token]) => flags' = flags]_vars
    /\ [][(IsCall("poll", 0) /\ flags[token]) => flags'[runner'.r.token]]_vars
    /\ [](flags[runner.r.token] = flags[runner.token])
    /\ [](flags[runner.token] => lastPoll.cancelled)

\* The inner runner's handle reads the cancellation, and cancel() was called again.
C13_Witness ==
    /\ flags[runner.r.token]
    /\ lastPoll.cancelled
    /\ lastCall.op = "cancel"

\* ---------------------------------------------------------------- claims on SpecSlot
\* C14: take() returns None exactly when nothing was replaced since the last
\* take (or the creation); otherwise it returns the value replaced last, and it
\* leaves the slot empty, so the next take without a replace returns None.
C14_TakeReturnsLastReplaced ==
    [][IsCall("take", 0) =>
          /\ taken' = IF unread = <<>> THEN None ELSE Some(unread[Len(unread)])
          /\ task_output' = None]_vars

\* After a take that returned a value, two values were replaced and the second is in the slot.
C14_Witness ==
    /\ taken # None
    /\ Len(unread) = 2
    /\ unread[1] # unread[2]
    /\ task_output = Some(unread[2])

\* ---------------------------------------------------------------- claims on SpecSeq
\* C15: B's runner exists and B's effects happen only after A reported
\* completion with its output; when the sequence is cancelled while A is the
\* active stage, B's runner is never made and B has no effect.
C15_BOnlyAfterA ==
    /\ (seq.b_made \/ effects.B > 0) => (seq.a_done /\ seq.input # None)
    /\ (seqHost = "stopped" /\ seqLast.cancelled /\ seqLast.stage = "A") =>
          (~seq.b_made /\ effects.B = 0 /\ seq.stage = "A")

\* The sequence was cancelled after A had been polled without completing.
C15_Witness ==
    /\ seqHost = "stopped"
    /\ seqLast.cancelled
    /\ seqLast.stage = "A"
    /\ effects.A >= 1
    /\ ~seq.b_made

====
